---- MODULE Spec2Model ----
(***************************************************************************)
(* TaxParams: a paramtools.Parameters subclass whose adjust() handles the  *)
(* CPI_offset / "-indexed" logic of Tax-Calculator policy parameters.      *)
(*                                                                         *)
(* Units.  Parameter values are integers in hundredths (np.round(v, 2) in  *)
(* the extension step keeps two decimals).  Rates and CPI offsets are      *)
(* integers in units of 1e-5, so that np.round(x, 4) of set_rates is a     *)
(* real rounding (to a multiple of 10 units).                              *)
(*                                                                         *)
(* The primitives inherited from paramtools.Parameters (adjust, extend,    *)
(* select_gt, select_lt) are modelled by what they do to the value         *)
(* objects at the places where TaxParams calls them.                       *)
(***************************************************************************)
EXTENDS Integers, Sequences, FiniteSets, TLC

VARIABLES st, pre, hist, err, ret, src

vars == <<st, pre, hist, err, ret, src>>

---------------------------------------------------------------------------
(* Horizon and bounds *)

MIN_YEAR == 2013

\* number of years of the modelled horizon (utils.MAX_YEAR - MIN_YEAR + 1)
HorizonLen == 5

\* number of adjust calls made on one instance
MaxCalls == 2

MAX_YEAR == MIN_YEAR + HorizonLen - 1

Years == MIN_YEAR..MAX_YEAR

\* set_rates builds the rate lists one year past the label grid (2013..2030)
RateYears == MIN_YEAR..(MAX_YEAR + 1)

\* taxcalc.Policy.LAST_KNOWN_YEAR
LAST_KNOWN_YEAR == MIN_YEAR + 2

NoLabel == "-"

None == "None"

Params == {"CPI_offset", "EITC_c", "CTC_c", "SS_Earnings_c", "II_rt1"}

WAGE_INDEXED_PARAMS == {"SS_Earnings_c"}

\* the definitions sources (policy_current_law.json) the model starts from
Sources == {1, 2}

---------------------------------------------------------------------------
(* Arithmetic *)

\* np.round: n / d rounded to the nearest integer, ties to even (d > 0)
RoundHalfEven(n, d) ==
  LET q == n \div d
      r == n % d
  IN  IF 2 * r > d THEN q + 1
      ELSE IF 2 * r = d THEN q + (q % 2)
      ELSE q

\* np.round(x, 4) for x in units of 1e-5
Round4(x) == 10 * RoundHalfEven(x, 10)

Min(S) == CHOOSE x \in S : \A y \in S : x <= y

Max(S) == CHOOSE x \in S : \A y \in S : x >= y

---------------------------------------------------------------------------
(* The definitions source and its conversion *)

\* policy_current_law.json: "vi_vals" of a parameter (NoLabel: a vector)
vi_vals(p) == IF p = "EITC_c" THEN {"0kids", "1kid"} ELSE {NoLabel}

pcl_indexable(p) == p \in {"EITC_c", "CTC_c", "SS_Earnings_c"}

pcl_indexed(p) == p \in {"EITC_c", "SS_Earnings_c"}

\* "value": the hard-coded value of p for label l, i years after MIN_YEAR
\* ("value_yrs" runs from MIN_YEAR to LAST_KNOWN_YEAR)
pcl_value(s, p, l, i) ==
  CASE p = "CPI_offset"    -> IF s = 2 /\ i >= 2 THEN -250 ELSE 0
    [] p = "EITC_c"        -> IF l = "0kids" THEN 10000 + 230 * i
                              ELSE 15000 + 410 * i * i
    [] p = "CTC_c"         -> IF i >= 2 THEN 20000 ELSE 10000
    [] p = "SS_Earnings_c" -> 11000 + 450 * i
    [] OTHER               -> 10 + 2 * i

\* convert_defaults: the converted entry of one parameter.  "checkbox" and
\* "indexed" are written for an indexable parameter; no other member of the
\* source entry is copied besides those listed in to_keep.
convert_defaults(s, p) ==
  LET values == { [year |-> MIN_YEAR + i, lab |-> l,
                   value |-> pcl_value(s, p, l, i)] :
                   i \in 0..(LAST_KNOWN_YEAR - MIN_YEAR), l \in vi_vals(p) }
  IN  IF pcl_indexable(p)
      THEN [value |-> values, checkbox |-> pcl_indexed(p),
            indexed |-> pcl_indexed(p)]
      ELSE [value |-> values]

\* self._data[param].get("indexable", None), read as a truth value
get_indexable(s, p) ==
  LET d == convert_defaults(s, p)
  IN  IF "indexable" \in DOMAIN d THEN d["indexable"] ELSE FALSE

\* self._data[param].get("indexed", False) of the freshly loaded defaults
default_indexed(s, p) ==
  LET d == convert_defaults(s, p)
  IN  IF "indexed" \in DOMAIN d THEN d["indexed"] ELSE FALSE

---------------------------------------------------------------------------
(* Rate provider *)

\* taxcalc.GrowFactors().price_inflation_rates(2013, 2030), units of 1e-5
price_inflation_rates(y) == 1537 + 143 * (y - MIN_YEAR)

\* taxcalc.GrowFactors().wage_growth_rates(2013, 2030), units of 1e-5
gf_wage_growth_rates(y) == 3011 + 207 * (y - MIN_YEAR)

\* set_rates: the CPI_offset values in store order (they are kept in year
\* order), padded with the last one, added to the price rates and rounded
set_rates(cpi_vos) ==
  LET yrs == { vo.year : vo \in cpi_vos }
      last == Max(yrs)
      at(y) == (CHOOSE vo \in cpi_vos : vo.year = y).value
      n == Cardinality(cpi_vos)
      \* cpi_vals[ix]: the ix-th stored value, then the last one repeated
      cpi_offset(y) == IF y - MIN_YEAR < n
                       THEN at(CHOOSE k \in yrs :
                              Cardinality({j \in yrs : j < k}) = y - MIN_YEAR)
                       ELSE at(last)
  IN  [inflation |-> [y \in RateYears |->
                         Round4(price_inflation_rates(y) + cpi_offset(y))],
       wage      |-> [y \in RateYears |-> gf_wage_growth_rates(y)]]

\* mutant of get_index_rate: the inflation rate for every parameter
get_index_rate_price(s, param, label_to_extend_val) ==
  s.inflation_rates[label_to_extend_val]

\* get_index_rate: wage growth for the wage-indexed parameters, inflation
\* for the others, at the year handed in by the extension
get_index_rate(s, param, label_to_extend_val) ==
  IF param \in WAGE_INDEXED_PARAMS
  THEN s.wage_growth_rates[label_to_extend_val]
  ELSE s.inflation_rates[label_to_extend_val]

---------------------------------------------------------------------------
(* Value store and extension (paramtools.Parameters, as TaxParams uses it) *)

\* the value objects of param whose year is greater than year
\* (self.select_gt(param, True, year=year))
select_gt(s, param, year) == { vo \in s.data[param] : vo.year > year }

\* paramtools.select_gt / select_lt on the value objects of a payload entry
pt_select_gt(vos, year) == SelectSeq(vos, LAMBDA vo : vo.year > year)

select_lt(vos, year) == SelectSeq(vos, LAMBDA vo : vo.year < year)

\* adjusting with value None: the listed value objects are removed
delete_vos(s, param, gone) ==
  [s EXCEPT !.data[param] = @ \ gone]

\* one value object replaces the stored one with the same labels, or is added
RECURSIVE update_vos(_, _)
update_vos(values, vos) ==
  IF vos = <<>> THEN values
  ELSE LET vo == Head(vos)
           kept == { w \in values : ~(w.year = vo.year /\ w.lab = vo.lab) }
       IN  update_vos(kept \cup {vo}, Tail(vos))

\* one step of extend_func towards a later year: the value of year y grown
\* by the rate of year y and rounded to two decimals
grow_step(s, param, v, y) ==
  RoundHalfEven(v * (100000 + get_index_rate(s, param, y)), 100000)

\* one step of extend_func towards an earlier year: the value of year y + 1
\* divided by the growth of year y and rounded to two decimals
shrink_step(s, param, v, y) ==
  RoundHalfEven(v * 100000, 100000 + get_index_rate(s, param, y))

RECURSIVE shrink_to(_, _, _, _, _)
shrink_to(s, param, v, known, toext) ==
  IF known <= toext THEN v
  ELSE shrink_to(s, param, shrink_step(s, param, v, known - 1), known - 1, toext)

\* extend_func: the value object of year known carried to year toext
extend_func(s, param, v, known, toext) ==
  IF ~s.indexed[param] THEN v
  ELSE IF toext > known THEN grow_step(s, param, v, known)
  ELSE shrink_to(s, param, v, known, toext)

\* mutant of extend_values: one run fills only the first missing year of
\* every label combination
extend_values_one_year(s, param, hi) ==
  LET grid == MIN_YEAR..hi
      values == s.data[param]
      labs == { vo.lab : vo \in { w \in values : w.year \in grid } }
      defined(l) == { vo.year : vo \in { w \in values : w.lab = l /\ w.year \in grid } }
      known(l, y) == (CHOOSE vo \in values : vo.lab = l /\ vo.year = y).value
      ext(l) ==
        LET missing == { y \in grid \ defined(l) : y > Min(defined(l)) }
        IN  IF missing = {} THEN {}
            ELSE { [year |-> Min(missing), lab |-> l,
                    value |-> extend_func(s, param, known(l, Min(missing) - 1),
                                          Min(missing) - 1, Min(missing))] }
  IN  values \cup UNION { ext(l) : l \in labs }

\* extend(params=[param], label_to_extend="year",
\*        label_to_extend_values=range(MIN_YEAR, hi + 1)):
\* for every label combination of the stored values, every year of the grid
\* that has no value object gets one, computed from the year before it (the
\* first year of the grid from the first year that has one)
extend_values(s, param, hi) ==
  LET grid == MIN_YEAR..hi
      values == s.data[param]
      labs == { vo.lab : vo \in { w \in values : w.year \in grid } }
      defined(l) == { vo.year : vo \in { w \in values : w.lab = l /\ w.year \in grid } }
      known(l, y) == (CHOOSE vo \in values : vo.lab = l /\ vo.year = y).value
      ext(l) ==
        LET def == defined(l)
            first == Min(def)
            f[y \in grid] ==
              IF y \in def THEN known(l, y)
              ELSE IF y = MIN_YEAR
                   THEN extend_func(s, param, known(l, first), first, y)
                   ELSE extend_func(s, param, f[y - 1], y - 1, y)
        IN  { [year |-> y, lab |-> l, value |-> f[y]] : y \in grid \ def }
  IN  values \cup UNION { ext(l) : l \in labs }

extend_upto(s, param, hi) ==
  [s EXCEPT !.data[param] = extend_values(s, param, hi)]

\* extend(params=[param], label_to_extend="year")
extend(s, param) == extend_upto(s, param, MAX_YEAR)

\* extend(label_to_extend="year"): every parameter
extend_all(s) ==
  [s EXCEPT !.data = [p \in Params |-> extend_values(s, p, MAX_YEAR)]]

\* the stored values that a paramtools adjust with label_to_extend on
\* removes: those after an adjusted year, with the same labels
later_values(s, param, vos) ==
  { w \in s.data[param] :
      \E i \in 1..Len(vos) : w.lab = vos[i].lab /\ w.year > vos[i].year }

\* mutant of set_values: the value objects are written into every parameter
set_values_everywhere(s, param, vos) ==
  [s EXCEPT !.data = [p \in Params |-> update_vos(@[p], vos)]]

set_values(s, param, vos) ==
  [s EXCEPT !.data[param] = update_vos(@, vos)]

\* paramtools.Parameters.adjust for one parameter.  With label_to_extend on,
\* the stored values after each adjusted year (same labels) are removed, the
\* new values set and the parameter extended; with it off the new values
\* are only set.
pt_adjust(s, param, vos) ==
  IF s.label_to_extend = "year"
  THEN IF vos = <<>> THEN s
       ELSE extend(set_values(delete_vos(s, param, later_values(s, param, vos)),
                              param, vos),
                   param)
  ELSE set_values(s, param, vos)

\* the state of a new instance: defaults loaded, rates set on first use by
\* the constructor's extend, every parameter extended over the grid
NewInstance(source) ==
  LET rates == set_rates(convert_defaults(source, "CPI_offset").value)
      loaded == [data |-> [p \in Params |-> convert_defaults(source, p).value],
                 indexed |-> [p \in Params |-> default_indexed(source, p)],
                 inflation_rates |-> rates.inflation,
                 wage_growth_rates |-> rates.wage,
                 label_to_extend |-> "year",
                 array_first |-> TRUE]
  IN  extend_all(loaded)

---------------------------------------------------------------------------
(* Payloads.  A payload is the sequence of the entries of the dict handed  *)
(* to adjust, in the dict's order.  An entry is                            *)
(*   [param, idx, shape, vos, flag, changes]                               *)
(* param: the parameter named by the key; idx: the key is "<param>-indexed" *)
(* shape: "list", "bool" or "other" (the Python type of the entry's value)  *)
(* vos: the value objects of a plain entry; flag: the bare boolean of an    *)
(* indexed-status entry; changes: its list of [year, value] objects, year   *)
(* NoYear when the object has no "year".                                    *)

NoYear == 0

PlainEntry(param, vos) ==
  [param |-> param, idx |-> FALSE, shape |-> "list", vos |-> vos,
   flag |-> FALSE, changes |-> <<>>]

IndexedList(param, changes) ==
  [param |-> param, idx |-> TRUE, shape |-> "list", vos |-> <<>>,
   flag |-> FALSE, changes |-> changes]

IndexedBool(param, flag) ==
  [param |-> param, idx |-> TRUE, shape |-> "bool", vos |-> <<>>,
   flag |-> flag, changes |-> <<>>]

IndexedOther(param) ==
  [param |-> param, idx |-> TRUE, shape |-> "other", vos |-> <<>>,
   flag |-> FALSE, changes |-> <<>>]

\* "param in params": the payload has the plain key param
InParams(params, param) ==
  \E i \in 1..Len(params) : ~params[i].idx /\ params[i].param = param

\* params[param]
Get(params, param) ==
  params[CHOOSE i \in 1..Len(params) : ~params[i].idx /\ params[i].param = param].vos

---------------------------------------------------------------------------
(* adjust *)

MinYearOf(vos) == Min({ vos[i].year : i \in 1..Len(vos) })

\* lines 117-120: the first year in which CPI_offset is changed
cpi_min_year(params) == MinYearOf(Get(params, "CPI_offset"))

\* lines 109-116: CPI_offset is adjusted, then extending is switched off
cpi_set(s, params) ==
  [pt_adjust(s, "CPI_offset", Get(params, "CPI_offset"))
     EXCEPT !.label_to_extend = None]

\* mutant of cpi_rates: the offset is added only after cpi_min_year
cpi_rates_strict(s, params) ==
  LET rate_adjustment_vals == select_gt(s, "CPI_offset", cpi_min_year(params))
      added(y) == IF \E vo \in rate_adjustment_vals : vo.year = y
                  THEN (CHOOSE vo \in rate_adjustment_vals : vo.year = y).value
                  ELSE 0
  IN  [s EXCEPT !.inflation_rates = [y \in RateYears |-> @[y] + added(y)]]

\* lines 121-127: the stored CPI_offset values from cpi_min_year on are
\* added to the inflation rates
cpi_rates(s, params) ==
  LET rate_adjustment_vals == select_gt(s, "CPI_offset", cpi_min_year(params) - 1)
      added(y) == IF \E vo \in rate_adjustment_vals : vo.year = y
                  THEN (CHOOSE vo \in rate_adjustment_vals : vo.year = y).value
                  ELSE 0
  IN  [s EXCEPT !.inflation_rates = [y \in RateYears |-> @[y] + added(y)]]

\* lines 131-141: the indexed parameters named in the payload
revised(s, params) ==
  { params[i].param : i \in
      { j \in 1..Len(params) :
          /\ ~(~params[j].idx /\ params[j].param = "CPI_offset")
          /\ ~(~params[j].idx /\ params[j].param \in WAGE_INDEXED_PARAMS)
          /\ s.indexed[params[j].param] } }

\* lines 147-159: the indexed parameters not in the payload
others(s, params) ==
  { p \in Params : /\ ~InParams(params, p)
                   /\ p # "CPI_offset"
                   /\ p \notin WAGE_INDEXED_PARAMS
                   /\ s.indexed[p] }

\* mutant of delete_after: the values of year itself are removed as well
delete_after_incl(s, which, year) ==
  [s EXCEPT !.data = [p \in Params |-> IF p \in which
                                       THEN @[p] \ select_gt(s, p, year - 1)
                                       ELSE @[p]]]

\* the values of the parameters in which after year are removed
delete_after(s, which, year) ==
  [s EXCEPT !.data = [p \in Params |-> IF p \in which
                                       THEN @[p] \ select_gt(s, p, year)
                                       ELSE @[p]]]

\* lines 128-142: 1.a
cpi_delete_revised(s, params) ==
  delete_after(s, revised(s, params), cpi_min_year(params))

\* mutant of cpi_delete_others: the boundary is the first offset year alone
cpi_delete_others_early(s, params) ==
  delete_after(s, others(s, params), cpi_min_year(params))

\* lines 144-161: 1.b
cpi_delete_others(s, params) ==
  delete_after(s, others(s, params), Max({cpi_min_year(params), LAST_KNOWN_YEAR}))

\* mutant of cpi_phase: the final extend is left out
cpi_phase_noextend(s, params) ==
  cpi_delete_others(cpi_delete_revised(cpi_rates(cpi_set(s, params), params),
                                       params),
                    params)

\* mutant of cpi_phase: the rates are updated after the final extend
cpi_phase_stale(s, params) ==
  cpi_rates(extend_all(cpi_delete_others(cpi_delete_revised(cpi_set(s, params),
                                                            params),
                                         params)),
            params)

\* lines 107-163: the CPI_offset phase
cpi_phase(s, params) ==
  extend_all(cpi_delete_others(cpi_delete_revised(cpi_rates(cpi_set(s, params),
                                                            params),
                                                  params),
                               params))

\* lines 178-183: the year -> status map of an indexed-status entry
indexed_changes(e) ==
  IF e.shape = "bool" THEN [y \in {MIN_YEAR} |-> e.flag]
  ELSE LET yr(i) == IF e.changes[i].year = NoYear THEN MIN_YEAR
                    ELSE e.changes[i].year
           yrs == { yr(i) : i \in 1..Len(e.changes) }
           lastOf(y) == Max({ i \in 1..Len(e.changes) : yr(i) = y })
       IN  [y \in yrs |-> e.changes[lastOf(y)].value]

\* lines 198-221: the values before the first status change are set on the
\* values up to their first year and extended up to the year before the change
set_earlier_values(s, base_param, vos, min_index_change_year) ==
  extend_upto(pt_adjust(delete_vos(s, base_param,
                                   select_gt(s, base_param, MinYearOf(vos))),
                        base_param, vos),
              base_param, min_index_change_year - 1)

\* lines 188-221: 2.a, the values adjusted before the first status change
before_first_change(s, params, base_param, changes) ==
  IF ~InParams(params, base_param) THEN s
  ELSE IF select_lt(Get(params, base_param), Min(DOMAIN changes)) = <<>> THEN s
  ELSE set_earlier_values(s, base_param,
                          select_lt(Get(params, base_param), Min(DOMAIN changes)),
                          Min(DOMAIN changes))

\* lines 227-245: the values after year are removed and, 2.b, the parameter
\* is extended up to year
clear_and_extend_to(s, base_param, year) ==
  IF year > MIN_YEAR
  THEN extend_upto(delete_vos(s, base_param, select_gt(s, base_param, year)),
                   base_param, year)
  ELSE delete_vos(s, base_param, select_gt(s, base_param, year))

\* line 248: 2.c
set_indexed(s, base_param, indexed_val) ==
  [s EXCEPT !.indexed[base_param] = indexed_val]

\* lines 250-256: 2.d
set_later_values(s, params, base_param, year) ==
  IF InParams(params, base_param)
  THEN pt_adjust(s, base_param, pt_select_gt(Get(params, base_param), year - 1))
  ELSE s

\* lines 223-259: one status change, at year
one_change(s, params, base_param, year, indexed_val) ==
  extend(set_later_values(set_indexed(clear_and_extend_to(s, base_param, year),
                                      base_param, indexed_val),
                          params, base_param, year),
         base_param)

\* for year in sorted(indexed_changes)
RECURSIVE all_changes(_, _, _, _, _)
all_changes(s, params, base_param, changes, todo) ==
  IF todo = {} THEN s
  ELSE all_changes(one_change(s, params, base_param, Min(todo), changes[Min(todo)]),
                   params, base_param, changes, todo \ {Min(todo)})

\* lines 178-261: one accepted indexed-status entry
apply_entry(s, params, e) ==
  all_changes(before_first_change(s, params, e.param, indexed_changes(e)),
              params, e.param, indexed_changes(e), DOMAIN indexed_changes(e))

\* lines 168-261: the entries of the payload from the i-th on; acc carries
\* the state and index_affected.  err is "none", or the exception raised,
\* with the state left as it was when it was raised.
RECURSIVE indexed_phase(_, _, _, _)
indexed_phase(source, acc, params, i) ==
  IF i > Len(params) THEN acc
  ELSE IF ~params[i].idx THEN indexed_phase(source, acc, params, i + 1)
  ELSE IF ~get_indexable(source, params[i].param)
  THEN [acc EXCEPT !.err = "not_indexable", !.errparam = params[i].param]
  ELSE IF params[i].shape = "other"
  THEN [acc EXCEPT !.err = "malformed", !.errparam = params[i].param]
  ELSE indexed_phase(source,
                     [acc EXCEPT !.st = apply_entry(@, params, params[i]),
                                 !.index_affected = @ \cup {params[i].param}],
                     params, i + 1)

\* lines 266-277: the plain entries that no status change covers
RECURSIVE plain_phase(_, _, _, _)
plain_phase(s, params, index_affected, i) ==
  IF i > Len(params) THEN s
  ELSE IF params[i].idx \/ params[i].param \in index_affected
  THEN plain_phase(s, params, index_affected, i + 1)
  ELSE plain_phase(pt_adjust(s, params[i].param, params[i].vos),
                   params, index_affected, i + 1)

\* lines 92-163: the switches are saved, array_first is turned off and the
\* CPI_offset phase run
first_phase(s, params) ==
  IF InParams(params, "CPI_offset")
  THEN cpi_phase([s EXCEPT !.array_first = FALSE], params)
  ELSE [s EXCEPT !.array_first = FALSE]

\* lines 165-261
second_phase(source, s, params) ==
  indexed_phase(source,
                [st |-> [s EXCEPT !.label_to_extend = None],
                 err |-> "none", errparam |-> None, index_affected |-> {}],
                params, 1)

\* mutant of third_phase: the switches are left as the earlier phases set them
third_phase_unrestored(p2, params, label_to_extend, array_first) ==
  IF p2.err # "none"
  THEN [st |-> p2.st, err |-> p2.err, errparam |-> p2.errparam, ret |-> <<>>]
  ELSE [st |-> plain_phase(p2.st, params, p2.index_affected, 1),
        err |-> "none", errparam |-> None,
        ret |-> SelectSeq(params,
                          LAMBDA e : ~e.idx /\ e.param \notin p2.index_affected)
                \o SelectSeq(params,
                             LAMBDA e : e.idx \/ e.param \in p2.index_affected)]

\* mutant of third_phase: the CPI_offset entry, adjusted in the first phase,
\* is left out of the payload returned
third_phase_unreported(p2, params, label_to_extend, array_first) ==
  IF p2.err # "none"
  THEN [st |-> p2.st, err |-> p2.err, errparam |-> p2.errparam, ret |-> <<>>]
  ELSE [st |-> plain_phase([p2.st EXCEPT !.label_to_extend = label_to_extend,
                                         !.array_first = array_first],
                           params, p2.index_affected, 1),
        err |-> "none", errparam |-> None,
        ret |-> SelectSeq(params,
                          LAMBDA e : /\ ~e.idx
                                     /\ e.param \notin p2.index_affected
                                     /\ e.param # "CPI_offset")
                \o SelectSeq(params,
                             LAMBDA e : e.idx \/ e.param \in p2.index_affected)]

\* lines 262-286: the switches are re-instated, the plain entries adjusted
\* and the payload returned: the plain entries, then the indexing entries
third_phase(p2, params, label_to_extend, array_first) ==
  IF p2.err # "none"
  THEN [st |-> p2.st, err |-> p2.err, errparam |-> p2.errparam, ret |-> <<>>]
  ELSE [st |-> plain_phase([p2.st EXCEPT !.label_to_extend = label_to_extend,
                                         !.array_first = array_first],
                           params, p2.index_affected, 1),
        err |-> "none", errparam |-> None,
        ret |-> SelectSeq(params,
                          LAMBDA e : ~e.idx /\ e.param \notin p2.index_affected)
                \o SelectSeq(params,
                             LAMBDA e : e.idx \/ e.param \in p2.index_affected)]

\* TaxParams.adjust: the instance after the call, the exception raised
\* ("none" when it returns) and the payload returned
adjust(source, s, params) ==
  third_phase(second_phase(source, first_phase(s, params), params),
              params, s.label_to_extend, s.array_first)

---------------------------------------------------------------------------
(* The payloads the model submits *)

OffsetValues == {-100, 55}

\* 123.45, in hundredths
NewValue == 100 * 123 + 45

Vo(y, l, v) == [year |-> y, lab |-> l, value |-> v]

CpiEntry(y, d) == PlainEntry("CPI_offset", <<Vo(y, NoLabel, d)>>)

ValueEntry(p, l, y) == PlainEntry(p, <<Vo(y, l, NewValue)>>)

StatusEntry(p, y, b) == IndexedList(p, <<[year |-> y, value |-> b]>>)

ValueTargets == { <<p, l>> \in (Params \ {"CPI_offset"}) \X {"0kids", "1kid", NoLabel} :
                    l \in vi_vals(p) }

StatusTargets == Params \ {"CPI_offset"}

CpiPayloads == { <<CpiEntry(y, d)>> : y \in Years, d \in OffsetValues }

CpiListPayloads ==
  { <<PlainEntry("CPI_offset", <<Vo(y2, NoLabel, 55), Vo(y1, NoLabel, -100)>>)>> :
      y1 \in {MIN_YEAR + 1}, y2 \in {MIN_YEAR + 3, MAX_YEAR} }

ValuePayloads == { <<ValueEntry(t[1], t[2], y)>> : t \in ValueTargets, y \in Years }

WholeValuePayloads ==
  { <<PlainEntry("EITC_c", <<Vo(y, "0kids", NewValue), Vo(y, "1kid", NewValue + 1)>>)>> :
      y \in Years }

StatusPayloads ==
  { <<StatusEntry(p, y, b)>> : p \in StatusTargets, y \in Years \cup {NoYear},
                                b \in BOOLEAN }

BoolPayloads == { <<IndexedBool(p, b)>> : p \in StatusTargets, b \in BOOLEAN }

OtherPayloads == { <<IndexedOther(p)>> : p \in StatusTargets }

ValueStatusPayloads ==
  { <<ValueEntry(t[1], t[2], yv), StatusEntry(t[1], ys, b)>> :
      t \in { u \in ValueTargets : u[1] \in {"EITC_c", "CTC_c"} },
      yv \in Years, ys \in Years, b \in BOOLEAN }

CpiStatusPayloads ==
  { <<CpiEntry(y, -100), StatusEntry(p, ys, b)>> :
      y \in Years, p \in StatusTargets, ys \in {MIN_YEAR + 2}, b \in BOOLEAN }
  \cup
  { <<StatusEntry(p, MIN_YEAR + 2, TRUE), CpiEntry(y, -100)>> :
      y \in Years, p \in {"CTC_c", "II_rt1"} }

CpiValuePayloads ==
  { <<CpiEntry(y, d), ValueEntry(t[1], t[2], yv)>> :
      y \in Years, d \in {-100}, yv \in Years,
      t \in { u \in ValueTargets : u[1] \in {"EITC_c", "SS_Earnings_c"} } }

TwoStatusPayloads ==
  { <<StatusEntry(p, y, b), StatusEntry(q, y, b)>> :
      p \in {"CTC_c", "EITC_c"}, q \in {"II_rt1", "SS_Earnings_c"},
      y \in {MIN_YEAR, MIN_YEAR + 3}, b \in BOOLEAN }

\* one "-indexed" entry with two status changes, in either order of the list
SwapPayloads ==
  { <<IndexedList(p, <<[year |-> y1, value |-> b], [year |-> y2, value |-> ~b]>>)>> :
      p \in {"EITC_c", "CTC_c"}, b \in BOOLEAN,
      y1 \in {MIN_YEAR + 1, MIN_YEAR + 3}, y2 \in {MIN_YEAR + 1, MIN_YEAR + 3} }

\* the payloads of the first call on an instance
Payloads ==
  CpiPayloads \cup CpiListPayloads \cup ValuePayloads \cup WholeValuePayloads
  \cup StatusPayloads \cup BoolPayloads \cup OtherPayloads
  \cup ValueStatusPayloads \cup CpiStatusPayloads \cup CpiValuePayloads
  \cup TwoStatusPayloads \cup SwapPayloads

\* the payloads of the later calls
FollowUps ==
  { <<CpiEntry(MIN_YEAR + 1, -100)>>, <<CpiEntry(MIN_YEAR + 3, -100)>>,
    <<CpiEntry(MIN_YEAR + 3, 55)>>,
    <<ValueEntry("EITC_c", "0kids", MIN_YEAR + 1)>>,
    <<ValueEntry("EITC_c", "1kid", MAX_YEAR)>>,
    <<ValueEntry("CTC_c", NoLabel, MIN_YEAR + 1)>>,
    <<StatusEntry("EITC_c", MAX_YEAR, FALSE)>>,
    <<IndexedOther("II_rt1")>> }

---------------------------------------------------------------------------
(* The state machine *)

NoError == [kind |-> "none", param |-> None]

Init ==
  /\ src \in Sources
  /\ st = NewInstance(src)
  /\ pre = NewInstance(src)
  /\ hist = <<>>
  /\ err = NoError
  /\ ret = <<>>

\* one call of TaxParams.adjust(params)
Adjust(params) ==
  /\ Len(hist) < MaxCalls
  /\ LET r == adjust(src, st, params)
     IN  /\ st' = r.st
         /\ err' = [kind |-> r.err, param |-> r.errparam]
         /\ ret' = r.ret
  /\ pre' = st
  /\ hist' = Append(hist, [params |-> params,
                           err |-> adjust(src, st, params).err])
  /\ UNCHANGED src

Next ==
  \E params \in (IF hist = <<>> THEN Payloads ELSE FollowUps) : Adjust(params)

Spec == Init /\ [][Next]_vars

---------------------------------------------------------------------------
(* Vocabulary of the properties *)

\* the stored value of param for label l in year y
ValAt(s, param, l, y) ==
  (CHOOSE vo \in s.data[param] : vo.year = y /\ vo.lab = l).value

\* every call made so far returned
AllReturned == \A i \in 1..Len(hist) : hist[i].err = "none"

\* exactly one call was made on the new instance, with this payload
OnlyCall(params) == Len(hist) = 1 /\ hist[1].params = params

Default == NewInstance(src)

\* exactly one value object per (year, label) of the grid, and no other
GapFree(s) ==
  \A p \in Params :
    /\ \A vo \in s.data[p] : vo.year \in Years /\ vo.lab \in vi_vals(p)
    /\ \A y \in Years, l \in vi_vals(p) :
         Cardinality({ vo \in s.data[p] : vo.year = y /\ vo.lab = l }) = 1

---------------------------------------------------------------------------
(* C1 *)

\* C1: after any sequence of adjust calls that all returned, every parameter
\* has exactly one value for every (year, label) of the horizon: no year is
\* missing and no label assignment is duplicated.
C1_GapFree == AllReturned => GapFree(st)

\* two calls returned, the first carrying CPI_offset and a value change
C1_Witness ==
  /\ Len(hist) = 2
  /\ AllReturned
  /\ hist[1].params \in CpiValuePayloads
  /\ hist[2].params \in CpiPayloads
  /\ st.data # Default.data
  /\ GapFree(st)

---------------------------------------------------------------------------
(* C2 *)

\* C2: after one adjust({CPI_offset: [{year: y0, value: d}]}) on a default
\* store, the inflation rate of every horizon year y >= y0 is the default
\* rate of y plus d, and the rate of every y < y0 is the default rate.
C2_OffsetLinearity ==
  \A y0 \in Years, d \in OffsetValues :
    OnlyCall(<<CpiEntry(y0, d)>>) =>
      /\ err.kind = "none"
      /\ \A y \in Years :
           st.inflation_rates[y] =
             Default.inflation_rates[y] + (IF y >= y0 THEN d ELSE 0)

C2_Witness ==
  /\ OnlyCall(<<CpiEntry(MIN_YEAR + 2, -100)>>)
  /\ st.inflation_rates[MIN_YEAR + 1] = Default.inflation_rates[MIN_YEAR + 1]
  /\ st.inflation_rates[MIN_YEAR + 2] = Default.inflation_rates[MIN_YEAR + 2] - 100
  /\ st.inflation_rates[MAX_YEAR] = Default.inflation_rates[MAX_YEAR] - 100

---------------------------------------------------------------------------
(* C3 *)

Abs(x) == IF x < 0 THEN -x ELSE x

\* C3: after every adjust that returned, a repeated adjust of CPI_offset
\* included, the stored inflation rate of every horizon year is the baseline
\* price-inflation rate of that year plus the CPI_offset value stored for it
\* (up to the rounding of set_rates).  Stated for the definitions source
\* whose default offsets are all zero.
C3_RateIsBasePlusOffset ==
  (src = 1 /\ AllReturned) =>
    \A y \in Years :
      Abs(st.inflation_rates[y]
          - (price_inflation_rates(y) + ValAt(st, "CPI_offset", NoLabel, y))) <= 5

---------------------------------------------------------------------------
(* C4 *)

\* C4: on a default store, adjust({P-indexed: [{year: Y, value: false}]}) for
\* an indexed parameter P leaves the values of P before Y as the defaults,
\* and the value of Y and of every later year equals the value of Y - 1.
C4_TurnOffAtYear ==
  \A P \in { p \in Params : pcl_indexed(p) }, Y \in Years \ {MIN_YEAR} :
    OnlyCall(<<StatusEntry(P, Y, FALSE)>>) =>
      \A l \in vi_vals(P), y \in Years :
        ValAt(st, P, l, y) = IF y < Y THEN ValAt(Default, P, l, y)
                             ELSE ValAt(Default, P, l, Y - 1)

---------------------------------------------------------------------------
(* C5 *)

\* C5: when adjust raises because an indexed-status entry targets a parameter
\* that the definitions source does not declare indexable, the whole state
\* after the raise (values, indexed flags, rates, label_to_extend,
\* array_first) is the state before the call.
C5_AllOrNothing ==
  (err.kind = "not_indexable" /\ ~pcl_indexable(err.param)) => st = pre

---------------------------------------------------------------------------
(* C6 *)

\* C6: an adjust made of one "<P>-indexed" entry raises the not-indexable
\* error for P if and only if the definitions source does not declare P
\* indexable.
C6_IndexabilityGate ==
  \A P \in StatusTargets, Y \in Years, b \in BOOLEAN :
    OnlyCall(<<StatusEntry(P, Y, b)>>) =>
      ((err.kind = "not_indexable" /\ err.param = P) <=> ~pcl_indexable(P))

---------------------------------------------------------------------------
(* C7 *)

\* C7: for a value change of A at year yv and a status change of A at year
\* ys > yv, adjust({A: valueChange}) followed by adjust({A-indexed:
\* statusChange}) ends in the values and indexed flag of A that one
\* adjust({A: valueChange, A-indexed: statusChange}) on the same starting
\* store ends in.
C7_CombinedEqualsSequential ==
  \A t \in ValueTargets, yv \in Years, ys \in Years, b \in BOOLEAN :
    ( /\ yv < ys
      /\ Len(hist) = 2
      /\ hist[1].params = <<ValueEntry(t[1], t[2], yv)>>
      /\ hist[2].params = <<StatusEntry(t[1], ys, b)>> ) =>
      LET once == adjust(src, Default,
                         <<ValueEntry(t[1], t[2], yv), StatusEntry(t[1], ys, b)>>).st
      IN  /\ st.data[t[1]] = once.data[t[1]]
          /\ st.indexed[t[1]] = once.indexed[t[1]]

---------------------------------------------------------------------------
(* C8 *)

\* the rate the claim names: wage growth for the wage-indexed parameters,
\* the stored inflation rate for the others
ClaimRate(p, y) ==
  IF p \in {"SS_Earnings_c", "SS_Earnings_thd"} THEN st.wage_growth_rates[y]
  ELSE st.inflation_rates[y]

\* v * (1 + r), to two decimals
Compound(v, r) == RoundHalfEven(v * (100000 + r), 100000)

\* the last year for which a value of (p, l) was given explicitly: by the
\* definitions source (up to LAST_KNOWN_YEAR) or by a value entry of a call
LastExplicitYear(p, l) ==
  Max({LAST_KNOWN_YEAR} \cup
      UNION { UNION { { e.vos[k].year : k \in { n \in 1..Len(e.vos) : e.vos[n].lab = l } } :
                        e \in { hist[i].params[j] :
                                  j \in { m \in 1..Len(hist[i].params) :
                                            /\ ~hist[i].params[m].idx
                                            /\ hist[i].params[m].param = p } } } :
              i \in 1..Len(hist) })

\* C8 as stated: after a successful adjust, the value of an indexed parameter
\* in a year after its last explicit one is the value of the year before
\* grown by the rate of the year itself (the product over k = y+1 .. y').
C8_CompoundingAsStated ==
  (Len(hist) >= 1 /\ AllReturned) =>
    \A p \in Params : st.indexed[p] =>
      \A l \in vi_vals(p), y \in Years :
        (y >= LastExplicitYear(p, l) /\ y < MAX_YEAR) =>
          ValAt(st, p, l, y + 1) = Compound(ValAt(st, p, l, y), ClaimRate(p, y + 1))

\* C8 amended: after any sequence of adjusts that returned, for an indexed
\* parameter and every year y that is neither before LAST_KNOWN_YEAR nor
\* before the last year a value entry named for it, the value of y + 1 is the
\* value of y grown by the rate of year y and rounded to two decimals, so
\* the value of a later year y' is the last explicit value taken through
\* the rates of k = y .. y' - 1.
C8_Compounding ==
  (Len(hist) >= 1 /\ AllReturned) =>
    \A p \in Params : st.indexed[p] =>
      \A l \in vi_vals(p), y \in Years :
        (y >= LastExplicitYear(p, l) /\ y < MAX_YEAR) =>
          ValAt(st, p, l, y + 1) = Compound(ValAt(st, p, l, y), ClaimRate(p, y))

\* a value entry for an indexed parameter, then an offset change: the years
\* after the entry's are compounded from it with the new rates
C8_Witness ==
  /\ Len(hist) = 2
  /\ AllReturned
  /\ hist[1].params = <<ValueEntry("EITC_c", "0kids", MIN_YEAR + 3)>>
  /\ hist[2].params = <<CpiEntry(MIN_YEAR + 3, -100)>>
  /\ ValAt(st, "EITC_c", "0kids", MIN_YEAR + 3) = NewValue
  /\ ValAt(st, "EITC_c", "0kids", MAX_YEAR) =
       Compound(NewValue, Default.inflation_rates[MIN_YEAR + 3] - 100)
  /\ ValAt(st, "SS_Earnings_c", NoLabel, MAX_YEAR) =
       Compound(ValAt(st, "SS_Earnings_c", NoLabel, MAX_YEAR - 1),
                gf_wage_growth_rates(MAX_YEAR - 1))

---------------------------------------------------------------------------
(* C9 *)

\* C9: after one adjust({CPI_offset: [{year: y0, value: d}]}) on a default
\* store, every indexed parameter has its default value in every year up to
\* and including y0.
C9_NoChangeUpToOffsetYear ==
  \A y0 \in Years, d \in OffsetValues :
    OnlyCall(<<CpiEntry(y0, d)>>) =>
      \A Q \in Params : st.indexed[Q] =>
        \A l \in vi_vals(Q), y \in Years :
          y <= y0 => ValAt(st, Q, l, y) = ValAt(Default, Q, l, y)

\* the offset changed the value of a later year and not that of its own year
C9_Witness ==
  /\ OnlyCall(<<CpiEntry(MIN_YEAR + 3, -100)>>)
  /\ ValAt(st, "EITC_c", "1kid", MIN_YEAR + 3) =
       ValAt(Default, "EITC_c", "1kid", MIN_YEAR + 3)
  /\ ValAt(st, "EITC_c", "1kid", MAX_YEAR) #
       ValAt(Default, "EITC_c", "1kid", MAX_YEAR)

---------------------------------------------------------------------------
(* C10 *)

\* C10: adjust({P-indexed: b}) with a bare boolean ends in the state that
\* adjust({P-indexed: [{year: MIN_YEAR, value: b}]}) ends in, the status
\* change having taken effect from the first horizon year: the call returns
\* and the indexed flag of P is b.
C10_ScalarStatus ==
  \A P \in { p \in Params : pcl_indexable(p) }, b \in BOOLEAN :
    OnlyCall(<<IndexedBool(P, b)>>) =>
      /\ st = adjust(src, Default, <<StatusEntry(P, MIN_YEAR, b)>>).st
      /\ err.kind = "none"
      /\ st.indexed[P] = b

---------------------------------------------------------------------------
(* Vocabulary of the later properties *)

\* the payload of the last call
LastParams == hist[Len(hist)].params

\* the last call returned
Returned == Len(hist) >= 1 /\ err.kind = "none"

\* the keys of a payload: the parameter named and whether the key ends
\* with "-indexed"
Keys(params) == { <<params[i].param, params[i].idx>> : i \in 1..Len(params) }

\* the payload names param, directly or through its "-indexed" key
Named(params, param) == \E i \in 1..Len(params) : params[i].param = param

---------------------------------------------------------------------------
(* C11 *)

\* C11: adjust({P-indexed: b}) with a bare boolean b, for a parameter P the
\* definitions source declares indexable, is accepted and every entry of the
\* payload it returns is an explicit list of per-year objects.
C11_NormalizedReport ==
  \A P \in { p \in Params : pcl_indexable(p) }, b \in BOOLEAN :
    OnlyCall(<<IndexedBool(P, b)>>) =>
      /\ err.kind = "none"
      /\ ret # <<>>
      /\ \A i \in 1..Len(ret) : ret[i].shape = "list"

---------------------------------------------------------------------------
(* C12 *)

\* the instance in the middle of an adjust: the values of param after year
\* removed, extending switched off
Cleared(s, param, year) ==
  delete_vos([s EXCEPT !.label_to_extend = None], param, select_gt(s, param, year))

\* C12: on every store an adjust call starts from, and on every state of it
\* in which the values of a parameter after some year were cleared (the
\* states steps 2.b, 2.e and the final extend start from), extending the
\* parameter over a year range twice in succession gives exactly the value
\* objects that extending it once gives, and a later extend over the whole
\* horizon keeps every value object the first one filled.
C12_ExtendIdempotent ==
  Len(hist) < MaxCalls =>
    \A p \in Params, y \in Years :
      LET cleared == Cleared(st, p, y)
      IN  \A hi \in { h \in Years : h >= y } :
            LET once == extend_upto(cleared, p, hi)
            IN  /\ extend_upto(once, p, hi) = once
                /\ once.data[p] \subseteq extend(once, p).data[p]

\* after an offset change, the first extension of a cleared indexed parameter
\* fills years that were missing, and a second one changes nothing
C12_Witness ==
  /\ Len(hist) = 1
  /\ LastParams \in CpiPayloads
  /\ Returned
  /\ Cleared(st, "EITC_c", MIN_YEAR + 1).data["EITC_c"] # st.data["EITC_c"]
  /\ extend_upto(Cleared(st, "EITC_c", MIN_YEAR + 1), "EITC_c", MAX_YEAR - 1)
       # Cleared(st, "EITC_c", MIN_YEAR + 1)
  /\ extend(extend(Cleared(st, "EITC_c", MIN_YEAR + 1), "EITC_c"), "EITC_c")
       = extend(Cleared(st, "EITC_c", MIN_YEAR + 1), "EITC_c")
  /\ GapFree(extend(Cleared(st, "EITC_c", MIN_YEAR + 1), "EITC_c"))

---------------------------------------------------------------------------
(* C13 *)

\* C13: an adjust whose "<P>-indexed" entry, for a parameter P the
\* definitions source declares indexable, is neither a boolean nor a list
\* raises the malformed-input error, and the store is left as it was.
C13_MalformedStatus ==
  \A P \in { p \in Params : pcl_indexable(p) } :
    OnlyCall(<<IndexedOther(P)>>) =>
      /\ err.kind = "malformed"
      /\ st.data = pre.data
      /\ st.indexed = pre.indexed

---------------------------------------------------------------------------
(* C14 *)

\* C14: an adjust whose "<P>-indexed" entry holds two status changes, b at
\* the earlier year y1 and ~b at the later year y2, in either order of the
\* list, returns; the indexed flag of P is then ~b, the value of the latest
\* year; the state is the one the other order of the list ends in; and where
\* b is false the values of P from y1 to y2 are constant.
C14_ChronologicalStatus ==
  \A P \in {"EITC_c", "CTC_c"}, b \in BOOLEAN :
    LET y1 == MIN_YEAR + 1
        y2 == MIN_YEAR + 3
        first == [year |-> y1, value |-> b]
        second == [year |-> y2, value |-> ~b]
    IN  ( \/ OnlyCall(<<IndexedList(P, <<first, second>>)>>)
          \/ OnlyCall(<<IndexedList(P, <<second, first>>)>>) ) =>
          /\ err.kind = "none"
          /\ st.indexed[P] = ~b
          /\ st = adjust(src, Default, <<IndexedList(P, <<first, second>>)>>).st
          /\ ~b => \A l \in vi_vals(P), y \in y1..y2 :
                     ValAt(st, P, l, y) = ValAt(st, P, l, y1)

---------------------------------------------------------------------------
(* C15 *)

\* C15: after one adjust({P: [{year: yv, labels, value: v}], P-indexed:
\* [{year: ys, value: b}]}) for a parameter P the definitions source declares
\* indexable, the stored value of P at (yv, labels) is v, whether yv is
\* before, at or after ys.
C15_ExplicitValuesSurvive ==
  \A t \in { u \in ValueTargets : u[1] \in {"EITC_c", "CTC_c"} },
     yv \in Years, ys \in Years, b \in BOOLEAN :
    OnlyCall(<<ValueEntry(t[1], t[2], yv), StatusEntry(t[1], ys, b)>>) =>
      ValAt(st, t[1], t[2], yv) = NewValue

---------------------------------------------------------------------------
(* C16 *)

\* C16: an adjust whose payload has no CPI_offset entry, whether it returns
\* or raises, leaves the inflation-rate and wage-growth-rate tables as they
\* were, and leaves the values and the indexed flag of every parameter the
\* payload names neither directly nor through a "-indexed" key as they were.
C16_NonOffsetFrame ==
  (Len(hist) >= 1 /\ ~InParams(LastParams, "CPI_offset")) =>
    /\ st.inflation_rates = pre.inflation_rates
    /\ st.wage_growth_rates = pre.wage_growth_rates
    /\ \A p \in Params :
         ~Named(LastParams, p) =>
           /\ st.data[p] = pre.data[p]
           /\ st.indexed[p] = pre.indexed[p]

\* a value change on a store an earlier offset change had moved away from
\* the defaults: the named parameter changed, the others did not
C16_Witness ==
  /\ Len(hist) = 2
  /\ hist[1].params = <<CpiEntry(MIN_YEAR + 1, -100)>>
  /\ LastParams = <<ValueEntry("CTC_c", NoLabel, MIN_YEAR + 1)>>
  /\ Returned
  /\ pre.data["EITC_c"] # Default.data["EITC_c"]
  /\ st.data["CTC_c"] # pre.data["CTC_c"]
  /\ st.data["EITC_c"] = pre.data["EITC_c"]
  /\ st.inflation_rates = pre.inflation_rates

---------------------------------------------------------------------------
(* C17 *)

\* the first year from which the last call wrote the values of (p, l): the
\* latest year its value entry names for (p, l) when the call returned and
\* has one, else the first offset year when the payload names p, else the
\* later of the first offset year and LAST_KNOWN_YEAR
WrittenFrom(p, l) ==
  LET forLabel == UNION { { LastParams[i].vos[k].year :
                              k \in { n \in 1..Len(LastParams[i].vos) :
                                        LastParams[i].vos[n].lab = l } } :
                          i \in { j \in 1..Len(LastParams) :
                                    ~LastParams[j].idx /\ LastParams[j].param = p } }
  IN  IF err.kind = "none" /\ forLabel # {} THEN Max(forLabel)
      ELSE IF Named(LastParams, p) THEN cpi_min_year(LastParams)
      ELSE Max({cpi_min_year(LastParams), LAST_KNOWN_YEAR})

\* C17: after an adjust whose payload changes CPI_offset, the inflation rate
\* of every year from the first offset year on is the rate before the call
\* plus the offset now stored for that year, and every value the call wrote
\* for an indexed, not wage-indexed parameter is the value of the year
\* before it grown by that updated rate: none is computed from a rate of
\* before the call.
C17_FreshRates ==
  (Len(hist) >= 1 /\ InParams(LastParams, "CPI_offset")) =>
    /\ \A y \in Years :
         st.inflation_rates[y] =
           pre.inflation_rates[y]
           + (IF y >= cpi_min_year(LastParams)
              THEN ValAt(st, "CPI_offset", NoLabel, y) ELSE 0)
    /\ \A p \in Params \ ({"CPI_offset"} \cup WAGE_INDEXED_PARAMS) :
         st.indexed[p] =>
           \A l \in vi_vals(p), y \in Years :
             (y >= WrittenFrom(p, l) /\ y < MAX_YEAR) =>
               ValAt(st, p, l, y + 1) =
                 Compound(ValAt(st, p, l, y), st.inflation_rates[y])

\* an offset change that moved the rates: the values after it follow the new
\* rate and not the rate of before the call
C17_Witness ==
  /\ OnlyCall(<<CpiEntry(MIN_YEAR + 3, -100)>>)
  /\ Returned
  /\ st.inflation_rates[MIN_YEAR + 3] = pre.inflation_rates[MIN_YEAR + 3] - 100
  /\ ValAt(st, "EITC_c", "1kid", MAX_YEAR) =
       Compound(ValAt(st, "EITC_c", "1kid", MIN_YEAR + 3),
                st.inflation_rates[MIN_YEAR + 3])
  /\ ValAt(st, "EITC_c", "1kid", MAX_YEAR) #
       Compound(ValAt(st, "EITC_c", "1kid", MIN_YEAR + 3),
                pre.inflation_rates[MIN_YEAR + 3])

---------------------------------------------------------------------------
(* C18 *)

\* the instance as the offset phase of the last call found it
Entered == [pre EXCEPT !.array_first = FALSE]

\* the year after which the offset phase clears the values of p
ResetBoundary(p) ==
  IF Named(LastParams, p) THEN cpi_min_year(LastParams)
  ELSE Max({cpi_min_year(LastParams), LAST_KNOWN_YEAR})

\* C18: in an adjust that changes CPI_offset first at year y0, for every
\* indexed, not wage-indexed parameter the offset phase clears exactly the
\* values of the years after its boundary (y0 when the payload names the
\* parameter, the later of y0 and LAST_KNOWN_YEAR when it does not), refills
\* them by extension from the value at the boundary, and keeps every value
\* up to the boundary as it was; a parameter the payload does not name ends
\* the call in that state.
C18_ResetBoundary ==
  (Len(hist) >= 1 /\ InParams(LastParams, "CPI_offset")) =>
    \A p \in Params \ ({"CPI_offset"} \cup WAGE_INDEXED_PARAMS) :
      pre.indexed[p] =>
        LET refilled == first_phase(pre, LastParams)
        IN  /\ cpi_phase_noextend(Entered, LastParams).data[p] =
                 { vo \in pre.data[p] : vo.year <= ResetBoundary(p) }
            /\ { vo \in refilled.data[p] : vo.year <= ResetBoundary(p) } =
                 { vo \in pre.data[p] : vo.year <= ResetBoundary(p) }
            /\ \A l \in vi_vals(p), y \in Years :
                 (y >= ResetBoundary(p) /\ y < MAX_YEAR) =>
                   ValAt(refilled, p, l, y + 1) =
                     Compound(ValAt(refilled, p, l, y), refilled.inflation_rates[y])
            /\ ~Named(LastParams, p) => st.data[p] = refilled.data[p]

\* an offset change before LAST_KNOWN_YEAR together with a value change of
\* EITC_c: the hard-coded value of LAST_KNOWN_YEAR of the label the value
\* change does not name is cleared and refilled, that of the offset year kept
C18_Witness ==
  /\ OnlyCall(<<CpiEntry(MIN_YEAR + 1, -100),
                ValueEntry("EITC_c", "0kids", MAX_YEAR)>>)
  /\ Returned
  /\ ValAt(st, "EITC_c", "1kid", MIN_YEAR + 1) =
       ValAt(Default, "EITC_c", "1kid", MIN_YEAR + 1)
  /\ ValAt(st, "EITC_c", "1kid", LAST_KNOWN_YEAR) #
       ValAt(Default, "EITC_c", "1kid", LAST_KNOWN_YEAR)
  /\ ValAt(st, "EITC_c", "1kid", LAST_KNOWN_YEAR) =
       Compound(ValAt(Default, "EITC_c", "1kid", MIN_YEAR + 1),
                st.inflation_rates[MIN_YEAR + 1])

---------------------------------------------------------------------------
(* C19 *)

\* C19: an adjust whose payload is a CPI_offset entry alone leaves the
\* wage-growth-rate table and every value of the wage-indexed parameters as
\* they were; and in every state the values of an indexed wage-indexed
\* parameter after its last explicit year are grown by the wage-growth rate.
C19_WageIndependence ==
  /\ (Len(hist) >= 1 /\ Keys(LastParams) = {<<"CPI_offset", FALSE>>}) =>
       /\ st.wage_growth_rates = pre.wage_growth_rates
       /\ \A p \in WAGE_INDEXED_PARAMS : st.data[p] = pre.data[p]
  /\ \A p \in WAGE_INDEXED_PARAMS :
       st.indexed[p] =>
         \A l \in vi_vals(p), y \in Years :
           (y >= LastExplicitYear(p, l) /\ y < MAX_YEAR) =>
             ValAt(st, p, l, y + 1) =
               Compound(ValAt(st, p, l, y), st.wage_growth_rates[y])

\* an offset change moved the inflation rates and the price-indexed values;
\* the wage-indexed values are where they were, on the wage-growth rate
C19_Witness ==
  /\ OnlyCall(<<CpiEntry(MIN_YEAR + 1, -100)>>)
  /\ Returned
  /\ st.inflation_rates # Default.inflation_rates
  /\ st.data["EITC_c"] # Default.data["EITC_c"]
  /\ st.data["SS_Earnings_c"] = Default.data["SS_Earnings_c"]
  /\ ValAt(st, "SS_Earnings_c", NoLabel, MAX_YEAR) =
       Compound(ValAt(st, "SS_Earnings_c", NoLabel, MAX_YEAR - 1),
                gf_wage_growth_rates(MAX_YEAR - 1))
  /\ ValAt(st, "SS_Earnings_c", NoLabel, MAX_YEAR) #
       Compound(ValAt(st, "SS_Earnings_c", NoLabel, MAX_YEAR - 1),
                st.inflation_rates[MAX_YEAR - 1])

---------------------------------------------------------------------------
(* C20 *)

\* C20: the payload an adjust returns has exactly the keys of the payload
\* submitted, one entry for each, and every entry returned is the entry
\* submitted under that key: the "-indexed" entries as they were handed in,
\* the CPI_offset entry and the value entries with their value objects.
C20_ReportComplete ==
  Returned =>
    /\ Keys(ret) = Keys(LastParams)
    /\ Len(ret) = Len(LastParams)
    /\ \A i \in 1..Len(ret) : \E j \in 1..Len(LastParams) : ret[i] = LastParams[j]

\* an offset change and a value change in one payload: both are reported
C20_Witness ==
  /\ OnlyCall(<<CpiEntry(MIN_YEAR + 1, -100),
                ValueEntry("EITC_c", "1kid", MIN_YEAR + 3)>>)
  /\ Returned
  /\ Len(ret) = 2
  /\ Keys(ret) = {<<"CPI_offset", FALSE>>, <<"EITC_c", FALSE>>}
  /\ ret[1] = CpiEntry(MIN_YEAR + 1, -100)
  /\ ValAt(st, "EITC_c", "1kid", MIN_YEAR + 3) = NewValue

---------------------------------------------------------------------------
(* C21 *)

\* C21: after adjust({P-indexed: [{year: Y, value: true}]}) for a parameter P
\* that is indexable and not indexed by default, followed by a separate
\* adjust({CPI_offset: [{year: y0, value: d}]}) with y0 < Y, the first call
\* has returned, P is indexed, the values of P up to Y are those it had
\* before the second call, and the values of P are those one adjust with
\* both entries ends in.
C21_StatusYearSurvives ==
  \A d \in OffsetValues :
    LET P == "CTC_c"
        Y == MIN_YEAR + 3
        y0 == MIN_YEAR + 1
    IN  ( /\ Len(hist) = 2
          /\ hist[1].params = <<StatusEntry(P, Y, TRUE)>>
          /\ hist[2].params = <<CpiEntry(y0, d)>> ) =>
          /\ hist[1].err = "none"
          /\ st.indexed[P]
          /\ \A l \in vi_vals(P), y \in MIN_YEAR..Y :
               ValAt(st, P, l, y) = ValAt(pre, P, l, y)
          /\ st.data[P] =
               adjust(src, Default,
                      <<StatusEntry(P, Y, TRUE), CpiEntry(y0, d)>>).st.data[P]

---------------------------------------------------------------------------
(* C22 *)

\* C22: after every adjust that returns, label_to_extend and array_first
\* are what they were immediately before the call, and the state is the one
\* the plain entries give when they are adjusted, with those settings in
\* force, on the state the offset phase left.
C22_SwitchesReinstated ==
  Returned =>
    /\ st.label_to_extend = pre.label_to_extend
    /\ st.array_first = pre.array_first
    /\ st = plain_phase([first_phase(pre, LastParams)
                           EXCEPT !.label_to_extend = pre.label_to_extend,
                                  !.array_first = pre.array_first],
                        LastParams, {}, 1)

\* an offset change, whose phase switches extending off, with a value change:
\* the switches are back and the value change was extended over the later
\* years with extending on
C22_Witness ==
  /\ OnlyCall(<<CpiEntry(MIN_YEAR + 1, -100),
                ValueEntry("EITC_c", "0kids", MIN_YEAR + 3)>>)
  /\ Returned
  /\ first_phase(pre, LastParams).label_to_extend = None
  /\ ~first_phase(pre, LastParams).array_first
  /\ st.label_to_extend = "year"
  /\ st.array_first
  /\ ValAt(st, "EITC_c", "0kids", MAX_YEAR) =
       Compound(NewValue, st.inflation_rates[MIN_YEAR + 3])

====
